---- MODULE Spec2Model ----
(***************************************************************************)
(* MLOD P3D decode / encode (src/mlod-p3d.cpp).                            *)
(*                                                                         *)
(* Bytes are the integers 0..255.  A float is kept as the 4 bytes of its   *)
(* bit pattern (the code copies it, it never does arithmetic on it); a     *)
(* std::uint32_t is decoded little-endian to its numeric value and encoded *)
(* back; a std::string is the sequence of its chars; a std::vector is a    *)
(* sequence; std::optional<mlod_error> is <<>> (empty) or <<e>>.           *)
(***************************************************************************)
EXTENDS Integers, Sequences, FiniteSets, TLC

VARIABLES
    build,        \* how this build lowers a load of a bool object
    bytes,        \* main: the input buffer (std::vector<char> bytes)
    reader,       \* main: binary_reader over bytes
    out,          \* main: mlod_p3d out
    parse_error,  \* main: the std::optional<mlod_error> mlod_p3d::parse returns
    lod_index,    \* mlod_p3d::parse: position of the range-for over out.lods
    writer,       \* main: binary_writer
    str,          \* an arma_string handed to arma_string::parse / write
    pc            \* position in main / in the string codec run

vars == <<build, bytes, reader, out, parse_error, lod_index, writer, str, pc>>

----------------------------------------------------------------------------
(* std::optional<mlod_error> *)

nullopt == <<>>
mlod_error(err) == << [error |-> err] >>
has_value(e) == e /= <<>>

\* statements run in program order: first, the state the earlier statements
\* have left, is evaluated before second, whose value this is
after(first, second) == <<first, second>>[2]

\* std::vector<T>::resize(n) of a vector v, new elements value-initialised
resize(v, n, dflt) ==
    IF n <= Len(v) THEN SubSeq(v, 1, n)
    ELSE v \o [k \in 1..(n - Len(v)) |-> dflt]

\* the sequences of ss one after the other
RECURSIVE Flatten(_)
Flatten(ss) == IF ss = <<>> THEN <<>> ELSE Head(ss) \o Flatten(Tail(ss))

----------------------------------------------------------------------------
(* The types T that binary_reader::read<T> and binary_writer::write<T> are *)
(* instantiated with, their sizes and their object representations.        *)

\* #pragma pack(push, 1): a vert_descriptor is its four members, unpadded
sizeof(T) ==
    CASE T \in {"char", "bool", "uint8"} -> 1
      [] T \in {"uint32", "float", "mlod_signature"} -> 4
      [] T = "vert_descriptor" -> 16

\* little-endian value of the 4 bytes of a std::uint32_t object
uint32_from_bytes(raw) ==
    raw[1] + 256 * raw[2] + 65536 * raw[3] + 16777216 * raw[4]

\* the 4 bytes of the object representation of a std::uint32_t
uint32_to_bytes(v) ==
    << v % 256, (v \div 256) % 256, (v \div 65536) % 256, (v \div 16777216) % 256 >>

\* The lowerings of a bool load that compilers emit.  Reading a bool object
\* whose byte is neither 0 nor 1 is undefined: a build copies the byte
\* ("copy"), keeps its low bit ("trunc") or tests it against zero ("test").
BoolLoads == {"copy", "trunc", "test"}

\* the value a load of the bool object with byte b gives
bool_from_byte(b) ==
    CASE build = "copy" -> b
      [] build = "trunc" -> b % 2
      [] OTHER -> IF b = 0 THEN 0 ELSE 1

float_zero == <<0, 0, 0, 0>>

default_vert_descriptor ==
    [point_index |-> 0, normal_index |-> 0, u |-> float_zero, v |-> float_zero]

vert_descriptor_from_bytes(raw) ==
    [point_index |-> uint32_from_bytes(SubSeq(raw, 1, 4)),
     normal_index |-> uint32_from_bytes(SubSeq(raw, 5, 8)),
     u |-> SubSeq(raw, 9, 12),
     v |-> SubSeq(raw, 13, 16)]

vert_descriptor_to_bytes(d) ==
    uint32_to_bytes(d.point_index) \o uint32_to_bytes(d.normal_index) \o d.u \o d.v

\* *reinterpret_cast<T*>(p) read: the T whose object representation is raw
from_bytes(T, raw) ==
    CASE T = "uint32" -> uint32_from_bytes(raw)
      [] T = "bool" -> bool_from_byte(raw[1])
      [] T \in {"char", "uint8"} -> raw[1]
      [] T = "vert_descriptor" -> vert_descriptor_from_bytes(raw)
      [] OTHER -> raw

\* *reinterpret_cast<T*>(p) = d: the object representation of d
to_bytes(T, d) ==
    CASE T = "uint32" -> uint32_to_bytes(d)
      [] T \in {"char", "uint8", "bool"} -> <<d>>
      [] T = "vert_descriptor" -> vert_descriptor_to_bytes(d)
      [] OTHER -> d

----------------------------------------------------------------------------
(* binary_writer *)

new_writer == [data |-> <<>>, write_offset |-> 0]

\* binary_writer::write<T>(d)
binary_writer_write(w, T, d) ==
    LET resized == resize(w.data, Len(w.data) + sizeof(T), 0)
    \* the store at data.data() + write_offset overwrites sizeof(T) bytes
    IN [data |-> SubSeq(resized, 1, w.write_offset) \o to_bytes(T, d)
                    \o SubSeq(resized, w.write_offset + sizeof(T) + 1, Len(resized)),
        write_offset |-> w.write_offset + sizeof(T)]

----------------------------------------------------------------------------
(* binary_reader: begin and end are addresses; memory is mem, whose first  *)
(* byte has address begin.                                                  *)

BaseAddress == 0

binary_reader(mem, size) ==
    [mem |-> mem, current_offset |-> 0,
     begin |-> BaseAddress, end |-> BaseAddress + size]

\* the byte at address a; outside the buffer the load is of foreign memory
load_byte(r, a) ==
    IF a - r.begin + 1 \in 1..Len(r.mem) THEN r.mem[a - r.begin + 1] ELSE 0

\* binary_reader::read<T>(out): what it returns, the value it stores in out
\* when it returns true, and the reader afterwards
binary_reader_read(r, T) ==
    LET max_read_ptr == r.begin + r.current_offset + sizeof(T) IN
    IF max_read_ptr > r.end
    THEN [ok |-> FALSE, reader |-> r]
    ELSE [ok |-> TRUE,
          value |-> from_bytes(T, <<>> \o [k \in 1..sizeof(T) |->
                                load_byte(r, r.begin + r.current_offset + k - 1)]),
          reader |-> [r EXCEPT !.current_offset = @ + sizeof(T)]]

----------------------------------------------------------------------------
(* Every parse below gives [err, reader, out]: the std::optional it        *)
(* returns, the reader afterwards and the out parameter afterwards.  A     *)
(* parse is the chain of its statements, each taking the state s the one   *)
(* before it left; once s.err holds a value the function has returned and  *)
(* the statements after it leave s as it is.                               *)

result(e, r, o) == [err |-> e, reader |-> r, out |-> o]

entry(r, o) == result(nullopt, r, o)

\* if (!reader.read(out.field)) return mlod_error(msg);  given what read did
store_member(o, field, msg, rd) ==
    IF ~rd.ok THEN result(mlod_error(msg), rd.reader, o)
    ELSE result(nullopt, rd.reader, [o EXCEPT ![field] = rd.value])

\* if (!reader.read(x)) return mlod_error(msg);  x being element k of out.field
store_element(o, field, k, msg, rd) ==
    IF ~rd.ok THEN result(mlod_error(msg), rd.reader, o)
    ELSE result(nullopt, rd.reader, [o EXCEPT ![field][k] = rd.value])

\* reader.read(x);  x being element k of v, what read returns dropped
store_unchecked(v, k, rd) ==
    [reader |-> rd.reader, value |-> IF rd.ok THEN [v EXCEPT ![k] = rd.value] ELSE v]

\* err = X::parse(reader, out.field); if (err.has_value()) return err;
\* given what X::parse did, its out parameter being the member itself
into_member(o, field, p) ==
    result(p.err, p.reader, [o EXCEPT ![field] = p.out])

\* err = X::parse(reader, x); if (err.has_value()) return err;
\* x being element k of out.field
into_element(o, field, k, p) ==
    result(p.err, p.reader, [o EXCEPT ![field][k] = p.out])

read_member(s, T, field, msg) ==
    IF has_value(s.err) THEN s
    ELSE store_member(s.out, field, msg, binary_reader_read(s.reader, T))

\* out.field.resize(n);
resize_member(s, field, n, dflt) ==
    IF has_value(s.err) THEN s
    ELSE [s EXCEPT !.out[field] = resize(@, n, dflt)]

\* out.field.resize(out.count);
resize_to_count(s, field, count, dflt) ==
    IF has_value(s.err) THEN s
    ELSE [s EXCEPT !.out[field] = resize(@, s.out[count], dflt)]

----------------------------------------------------------------------------
(* vector3 *)

default_vector3 == [x |-> float_zero, y |-> float_zero, z |-> float_zero]

vector3_parse(r, o) ==
    LET s1 == read_member(entry(r, o), "float", "x", "failed to read vector3.x")
        s2 == read_member(s1, "float", "y", "failed to read vector3.y")
    IN read_member(s2, "float", "z", "failed to read vector3.z")

vector3_write(w, in) ==
    after(w,
        LET w1 == binary_writer_write(w, "float", in.x)
            w2 == binary_writer_write(w1, "float", in.y)
        IN binary_writer_write(w2, "float", in.z))

----------------------------------------------------------------------------
(* arma_string *)

default_arma_string == [string |-> <<>>]

RECURSIVE arma_string_parse_loop(_, _)

\* the body of the loop once reader.read(ch) has run: return the error,
\* break on the NUL, or push_back and go round again
arma_string_parse_char(o, rc) ==
    IF ~rc.ok THEN result(mlod_error("failed to read arma_string[n]"), rc.reader, o)
    ELSE IF rc.value /= 0
         THEN arma_string_parse_loop(rc.reader, [o EXCEPT !.string = Append(@, rc.value)])
         ELSE result(nullopt, rc.reader, o)

\* the do ... while (true) of arma_string::parse
arma_string_parse_loop(r, o) ==
    arma_string_parse_char(o, binary_reader_read(r, "char"))

arma_string_parse(r, o) ==
    arma_string_parse_loop(r, [o EXCEPT !.string = <<>>])

\* for (const auto& ch : in.string) writer.write(ch);
RECURSIVE arma_string_write_chars(_, _, _)
arma_string_write_chars(w, s, k) ==
    after(w, IF k > Len(s) THEN w
             ELSE arma_string_write_chars(binary_writer_write(w, "char", s[k]), s, k + 1))

\* arma_string::write had it left out writer.write('\0')
arma_string_write_unterminated(w, in) ==
    arma_string_write_chars(w, in.string, 1)

arma_string_write(w, in) ==
    after(w,
        binary_writer_write(arma_string_write_chars(w, in.string, 1), "char", 0))

\* err = arma_string::parse(reader, out.field); if (err.has_value()) return err;
parse_string_member(s, field) ==
    IF has_value(s.err) THEN s
    ELSE into_member(s.out, field, arma_string_parse(s.reader, s.out[field]))

----------------------------------------------------------------------------
(* mlod_face *)

default_mlod_face ==
    [face_type |-> 0, vertices |-> <<>>, face_flags |-> 0,
     texture_name |-> default_arma_string, material_name |-> default_arma_string]

\* for (auto& desc : out.vertices) if (!reader.read(desc)) return ...
RECURSIVE mlod_face_parse_vertices(_, _)
mlod_face_parse_vertices(s, k) ==
    IF has_value(s.err) \/ k > Len(s.out.vertices) THEN s
    ELSE mlod_face_parse_vertices(
            store_element(s.out, "vertices", k, "failed to read mlod_face.vertices[n]",
                          binary_reader_read(s.reader, "vert_descriptor")), k + 1)

\* mlod_face::parse had it kept only the face_type vertices a face uses
mlod_face_parse_trimmed(r, o) ==
    LET s1 == read_member(entry(r, o), "uint32", "face_type",
                          "failed to read mlod_face.face_type")
        s2 == resize_member(s1, "vertices", 4, default_vert_descriptor)
        s3 == mlod_face_parse_vertices(s2, 1)
        s4 == resize_to_count(s3, "vertices", "face_type", default_vert_descriptor)
        s5 == read_member(s4, "uint32", "face_flags", "failed to read mlod_face.face_flags")
        s6 == parse_string_member(s5, "texture_name")
    IN parse_string_member(s6, "material_name")

mlod_face_parse(r, o) ==
    LET s1 == read_member(entry(r, o), "uint32", "face_type",
                          "failed to read mlod_face.face_type")
        \* always 4 nomatter the face_type
        s2 == resize_member(s1, "vertices", 4, default_vert_descriptor)
        s3 == mlod_face_parse_vertices(s2, 1)
        s4 == read_member(s3, "uint32", "face_flags", "failed to read mlod_face.face_flags")
        s5 == parse_string_member(s4, "texture_name")
    IN parse_string_member(s5, "material_name")

\* for (const auto& desc : in.vertices) writer.write(desc);
RECURSIVE mlod_face_write_vertices(_, _, _)
mlod_face_write_vertices(w, vs, k) ==
    after(w, IF k > Len(vs) THEN w
             ELSE mlod_face_write_vertices(binary_writer_write(w, "vert_descriptor", vs[k]), vs, k + 1))

mlod_face_write(w, in) ==
    after(w,
        LET w1 == binary_writer_write(w, "uint32", in.face_type)
            w2 == mlod_face_write_vertices(w1, in.vertices, 1)
            w3 == binary_writer_write(w2, "uint32", in.face_flags)
            w4 == arma_string_write(w3, in.texture_name)
        IN arma_string_write(w4, in.material_name))

----------------------------------------------------------------------------
(* mlod_point *)

default_mlod_point == [pos |-> default_vector3, flags |-> 0]

mlod_point_parse(r, o) ==
    read_member(into_member(o, "pos", vector3_parse(r, o.pos)),
                "uint32", "flags", "failed to read mlod_point.flags")

mlod_point_write(w, in) ==
    after(w,
        binary_writer_write(vector3_write(w, in.pos), "uint32", in.flags))

----------------------------------------------------------------------------
(* mlod_tag *)

default_mlod_tag ==
    [active |-> 0, tag_name |-> default_arma_string, data_length |-> 0, data |-> <<>>]

\* for (auto& b : out.data) if (!reader.read(b)) return ...
\* over the elements lo..hi in order; a payload is long, so the range is
\* walked as its first half and then its second
RECURSIVE mlod_tag_parse_data(_, _, _)
mlod_tag_parse_data(s, lo, hi) ==
    IF has_value(s.err) \/ lo > hi THEN s
    ELSE IF lo = hi
    THEN store_element(s.out, "data", lo, "failed to read mlod_tag.data[m]",
                       binary_reader_read(s.reader, "uint8"))
    ELSE mlod_tag_parse_data(mlod_tag_parse_data(s, lo, (lo + hi) \div 2),
                             ((lo + hi) \div 2) + 1, hi)

\* out.data.resize(out.data_length); and the loop over out.data
mlod_tag_parse_payload(s) ==
    IF has_value(s.err) THEN s
    ELSE mlod_tag_parse_data(resize_to_count(s, "data", "data_length", 0),
                             1, s.out.data_length)

mlod_tag_parse(r, o) ==
    LET s1 == read_member(entry(r, o), "bool", "active", "failed to read mlod_tag.active")
        s2 == parse_string_member(s1, "tag_name")
        s3 == read_member(s2, "uint32", "data_length", "failed to read mlod_tag.data_length")
    IN mlod_tag_parse_payload(s3)

\* for (const auto& b : in.data) writer.write(b);
\* over the elements lo..hi in order, first half then second half
RECURSIVE mlod_tag_write_data(_, _, _, _)
mlod_tag_write_data(w, d, lo, hi) ==
    after(w, IF lo > hi THEN w
             ELSE IF lo = hi THEN binary_writer_write(w, "uint8", d[lo])
             ELSE mlod_tag_write_data(mlod_tag_write_data(w, d, lo, (lo + hi) \div 2),
                                      d, ((lo + hi) \div 2) + 1, hi))

mlod_tag_write(w, in) ==
    after(w,
        LET w1 == binary_writer_write(w, "bool", in.active)
            w2 == arma_string_write(w1, in.tag_name)
            w3 == binary_writer_write(w2, "uint32", in.data_length)
        IN mlod_tag_write_data(w3, in.data, 1, Len(in.data)))

----------------------------------------------------------------------------
(* the converted tags *)

default_property_tag == [key |-> <<>>, value |-> <<>>]

\* for (auto& ch : s) reader.read(ch);
\* over the chars lo..hi in order, first half then second half
RECURSIVE read_chars(_, _, _)
read_chars(rs, lo, hi) ==
    after(rs, IF lo > hi THEN rs
              ELSE IF lo = hi
              THEN store_unchecked(rs.value, lo, binary_reader_read(rs.reader, "char"))
              ELSE read_chars(read_chars(rs, lo, (lo + hi) \div 2),
                              ((lo + hi) \div 2) + 1, hi))

\* s.resize(64) and the loop, for s = key and then for s = value
read_string_64(r) ==
    read_chars([reader |-> r, value |-> resize(<<>>, 64, 0)], 1, 64)

\* property_tag::property_tag(const mlod_tag& parent_tag)
property_tag(parent_tag) ==
    LET k == read_string_64(binary_reader(parent_tag.data, Len(parent_tag.data)))
    IN [key |-> k.value, value |-> read_string_64(k.reader).value]

default_mass_tag == [mass |-> <<>>]

\* for (auto& m : mass) reader.read(m);
RECURSIVE read_floats(_, _)
read_floats(rm, k) ==
    IF k > Len(rm.value) THEN rm
    ELSE read_floats(store_unchecked(rm.value, k, binary_reader_read(rm.reader, "float")),
                     k + 1)

\* mass_tag::mass_tag(const mlod_tag& parent_tag, const std::uint32_t num_points)
mass_tag(parent_tag, num_points) ==
    [mass |-> read_floats([reader |-> binary_reader(parent_tag.data, Len(parent_tag.data)),
                           value |-> resize(<<>>, num_points, float_zero)], 1).value]

----------------------------------------------------------------------------
(* mlod_lod *)

\* "#Property#", "#Mass#", "#EndOfFile#" as chars
PropertyName == <<35, 80, 114, 111, 112, 101, 114, 116, 121, 35>>
MassName == <<35, 77, 97, 115, 115, 35>>
EndOfFileName == <<35, 69, 110, 100, 79, 102, 70, 105, 108, 101, 35>>

default_mlod_lod ==
    [signature |-> <<0, 0, 0, 0>>, minor_version |-> 0, major_version |-> 0,
     num_points |-> 0, num_face_normals |-> 0, num_faces |-> 0, flags |-> 0,
     points |-> <<>>, normals |-> <<>>, faces |-> <<>>,
     tag_sig |-> <<0, 0, 0, 0>>, tags |-> <<>>, resolution |-> float_zero,
     property_tags |-> <<>>, mass |-> default_mass_tag]

\* for (auto& point : out.points) { err = mlod_point::parse(reader, point); ... }
RECURSIVE mlod_lod_parse_points(_, _)
mlod_lod_parse_points(s, k) ==
    IF has_value(s.err) \/ k > Len(s.out.points) THEN s
    ELSE mlod_lod_parse_points(
            into_element(s.out, "points", k, mlod_point_parse(s.reader, s.out.points[k])),
            k + 1)

\* for (auto& normal : out.normals) { err = vector3::parse(reader, normal); ... }
RECURSIVE mlod_lod_parse_normals(_, _)
mlod_lod_parse_normals(s, k) ==
    IF has_value(s.err) \/ k > Len(s.out.normals) THEN s
    ELSE mlod_lod_parse_normals(
            into_element(s.out, "normals", k, vector3_parse(s.reader, s.out.normals[k])),
            k + 1)

\* for (auto& face : out.faces) { err = mlod_face::parse(reader, face); ... }
RECURSIVE mlod_lod_parse_faces(_, _)
mlod_lod_parse_faces(s, k) ==
    IF has_value(s.err) \/ k > Len(s.out.faces) THEN s
    ELSE mlod_lod_parse_faces(
            into_element(s.out, "faces", k, mlod_face_parse(s.reader, s.out.faces[k])),
            k + 1)

\* out.tags.push_back(tag); and the if / else if on the name of the tag
mlod_lod_store_tag(o, tag) ==
    IF tag.tag_name.string = PropertyName
    THEN [o EXCEPT !.tags = Append(@, tag),
                   !.property_tags = Append(@, property_tag(tag))]
    ELSE IF tag.tag_name.string = MassName
         THEN [o EXCEPT !.tags = Append(@, tag), !.mass = mass_tag(tag, o.num_points)]
         ELSE [o EXCEPT !.tags = Append(@, tag)]

\* the body of the loop down to the break, given what mlod_tag::parse did
\* with the local tag; the local is kept for the test of the break
mlod_lod_parse_tag(o, p) ==
    IF has_value(p.err) THEN [err |-> p.err, reader |-> p.reader, out |-> o, tag |-> p.out]
    ELSE [err |-> nullopt, reader |-> p.reader, out |-> mlod_lod_store_tag(o, p.out),
          tag |-> p.out]

RECURSIVE mlod_lod_parse_tags(_)

\* the test of the break had it taken any tag without data for the last one
mlod_lod_parse_tags_while_empty(st) ==
    IF has_value(st.err) \/ st.tag.data_length = 0
    THEN result(st.err, st.reader, st.out)
    ELSE mlod_lod_parse_tags(result(nullopt, st.reader, st.out))

\* if (tag.tag_name.string == "#EndOfFile#") break;  } while (true);
mlod_lod_parse_tags_while(st) ==
    IF has_value(st.err) \/ st.tag.tag_name.string = EndOfFileName
    THEN result(st.err, st.reader, st.out)
    ELSE mlod_lod_parse_tags(result(nullopt, st.reader, st.out))

\* do { mlod_tag tag{}; auto err = mlod_tag::parse(reader, tag); ...
mlod_lod_parse_tags(s) ==
    IF has_value(s.err) THEN s
    ELSE mlod_lod_parse_tags_while(
            mlod_lod_parse_tag(s.out, mlod_tag_parse(s.reader, default_mlod_tag)))

mlod_lod_parse(r, o) ==
    LET s1 == read_member(entry(r, o), "mlod_signature", "signature",
                          "failed to read mlod_lod.signature")
        s2 == read_member(s1, "uint32", "minor_version",
                          "failed to read mlod_lod.minor_version")
        s3 == read_member(s2, "uint32", "major_version",
                          "failed to read mlod_lod.major_version")
        s4 == read_member(s3, "uint32", "num_points", "failed to read mlod_lod.num_points")
        s5 == read_member(s4, "uint32", "num_face_normals",
                          "failed to read mlod_lod.num_face_normals")
        s6 == read_member(s5, "uint32", "num_faces", "failed to read mlod_lod.num_faces")
        s7 == read_member(s6, "uint32", "flags", "failed to read mlod_lod.flags")
        s8 == mlod_lod_parse_points(
                resize_to_count(s7, "points", "num_points", default_mlod_point), 1)
        s9 == mlod_lod_parse_normals(
                resize_to_count(s8, "normals", "num_face_normals", default_vector3), 1)
        s10 == mlod_lod_parse_faces(
                resize_to_count(s9, "faces", "num_faces", default_mlod_face), 1)
        s11 == read_member(s10, "mlod_signature", "tag_sig",
                           "failed to read mlod_lod.tag_sig")
        s12 == mlod_lod_parse_tags(s11)
    IN read_member(s12, "float", "resolution", "failed to read mlod_lod.resolution")

\* for (const auto& point : in.points) mlod_point::write(writer, point);
RECURSIVE mlod_lod_write_points(_, _, _)
mlod_lod_write_points(w, ps, k) ==
    after(w, IF k > Len(ps) THEN w
             ELSE mlod_lod_write_points(mlod_point_write(w, ps[k]), ps, k + 1))

\* for (const auto& normal : in.normals) vector3::write(writer, normal);
RECURSIVE mlod_lod_write_normals(_, _, _)
mlod_lod_write_normals(w, ns, k) ==
    after(w, IF k > Len(ns) THEN w
             ELSE mlod_lod_write_normals(vector3_write(w, ns[k]), ns, k + 1))

\* for (const auto& face : in.faces) mlod_face::write(writer, face);
RECURSIVE mlod_lod_write_faces(_, _, _)
mlod_lod_write_faces(w, fs, k) ==
    after(w, IF k > Len(fs) THEN w
             ELSE mlod_lod_write_faces(mlod_face_write(w, fs[k]), fs, k + 1))

\* for (const auto& tag : in.tags) mlod_tag::write(writer, tag);
RECURSIVE mlod_lod_write_tags(_, _, _)
mlod_lod_write_tags(w, ts, k) ==
    after(w, IF k > Len(ts) THEN w
             ELSE mlod_lod_write_tags(mlod_tag_write(w, ts[k]), ts, k + 1))

\* the tags of a LOD with the data of each "#Mass#" tag built from in.mass
tags_from_projections(in) ==
    [j \in DOMAIN in.tags |->
        IF in.tags[j].tag_name.string = MassName
        THEN [in.tags[j] EXCEPT !.data = Flatten(in.mass.mass)]
        ELSE in.tags[j]]

\* mlod_lod::write had it written the tags from the projections
mlod_lod_write_projections(w, in) ==
    after(w,
        LET w1 == binary_writer_write(w, "mlod_signature", in.signature)
            w2 == binary_writer_write(w1, "uint32", in.minor_version)
            w3 == binary_writer_write(w2, "uint32", in.major_version)
            w4 == binary_writer_write(w3, "uint32", in.num_points)
            w5 == binary_writer_write(w4, "uint32", in.num_face_normals)
            w6 == binary_writer_write(w5, "uint32", in.num_faces)
            w7 == binary_writer_write(w6, "uint32", in.flags)
            w8 == mlod_lod_write_points(w7, in.points, 1)
            w9 == mlod_lod_write_normals(w8, in.normals, 1)
            w10 == mlod_lod_write_faces(w9, in.faces, 1)
            w11 == binary_writer_write(w10, "mlod_signature", in.tag_sig)
            w12 == mlod_lod_write_tags(w11, tags_from_projections(in), 1)
        IN binary_writer_write(w12, "float", in.resolution))

mlod_lod_write(w, in) ==
    after(w,
        LET w1 == binary_writer_write(w, "mlod_signature", in.signature)
            w2 == binary_writer_write(w1, "uint32", in.minor_version)
            w3 == binary_writer_write(w2, "uint32", in.major_version)
            w4 == binary_writer_write(w3, "uint32", in.num_points)
            w5 == binary_writer_write(w4, "uint32", in.num_face_normals)
            w6 == binary_writer_write(w5, "uint32", in.num_faces)
            w7 == binary_writer_write(w6, "uint32", in.flags)
            w8 == mlod_lod_write_points(w7, in.points, 1)
            w9 == mlod_lod_write_normals(w8, in.normals, 1)
            w10 == mlod_lod_write_faces(w9, in.faces, 1)
            w11 == binary_writer_write(w10, "mlod_signature", in.tag_sig)
            w12 == mlod_lod_write_tags(w11, in.tags, 1)
        IN binary_writer_write(w12, "float", in.resolution))

----------------------------------------------------------------------------
(* p3d_header and mlod_p3d *)

default_p3d_header == [signature |-> <<0, 0, 0, 0>>, version |-> 0, lod_count |-> 0]

default_mlod_p3d == [header |-> default_p3d_header, lods |-> <<>>]

p3d_header_parse(r, o) ==
    LET s1 == read_member(entry(r, o), "mlod_signature", "signature",
                          "failed to read p3d_header.signature")
        s2 == read_member(s1, "uint32", "version", "failed to read p3d_header.version")
    IN read_member(s2, "uint32", "lod_count", "failed to read p3d_header.lod_count")

p3d_header_write(w, in) ==
    after(w,
        LET w1 == binary_writer_write(w, "mlod_signature", in.signature)
            w2 == binary_writer_write(w1, "uint32", in.version)
        IN binary_writer_write(w2, "uint32", in.lod_count))

\* out.lods.resize(out.header.lod_count);
mlod_p3d_resize_lods(s) ==
    IF has_value(s.err) THEN s
    ELSE [s EXCEPT !.out.lods = resize(@, s.out.header.lod_count, default_mlod_lod)]

\* mlod_p3d::parse down to its loop
mlod_p3d_parse_header(r, o) ==
    mlod_p3d_resize_lods(into_member(o, "header", p3d_header_parse(r, o.header)))

\* one pass of for (auto& lod : out.lods) { err = mlod_lod::parse(reader, lod); ... }
mlod_p3d_parse_lod(s, k) ==
    into_element(s.out, "lods", k, mlod_lod_parse(s.reader, s.out.lods[k]))

RECURSIVE mlod_p3d_parse_lods(_, _)
mlod_p3d_parse_lods(s, k) ==
    IF has_value(s.err) \/ k > Len(s.out.lods) THEN s
    ELSE mlod_p3d_parse_lods(mlod_p3d_parse_lod(s, k), k + 1)

\* mlod_p3d::parse as one call
mlod_p3d_parse(r, o) ==
    mlod_p3d_parse_lods(mlod_p3d_parse_header(r, o), 1)

\* for (const auto& lod : in.lods) mlod_lod::write(writer, lod);
RECURSIVE mlod_p3d_write_lods(_, _, _)
mlod_p3d_write_lods(w, ls, k) ==
    after(w, IF k > Len(ls) THEN w
             ELSE mlod_p3d_write_lods(mlod_lod_write(w, ls[k]), ls, k + 1))

mlod_p3d_write(w, in) ==
    after(w,
        mlod_p3d_write_lods(p3d_header_write(w, in.header), in.lods, 1))

----------------------------------------------------------------------------
(* The buffers main is run on: files laid out as the code reads them, each *)
(* cut at every offset, and whole files followed by further bytes.         *)

MaxLods == 2          \* header.lod_count is 0..MaxLods
MaxPoints == 3        \* num_points is 0..MaxPoints
MaxNormals == 1       \* num_face_normals is 0..MaxNormals
MaxFaces == 2         \* num_faces is 0..MaxFaces
MaxMassFloats == 2    \* a "#Mass#" payload holds 0..MaxMassFloats floats
MaxActive == 3        \* the byte of mlod_tag.active is 0..MaxActive
MaxTrailing == 1      \* bytes that follow the last LOD of a whole file

FileU32(n) == <<n % 256, (n \div 256) % 256, 0, 0>>
FileFloat(k) == <<k, 0, 128, 63>>
FileString(s) == s \o <<0>>
FilePoint(k) == FileFloat(k) \o FileFloat(k + 1) \o FileFloat(k + 2) \o FileU32(k)
FileNormal(k) == FileFloat(10 + k) \o FileFloat(20 + k) \o FileFloat(30 + k)
FileVertex(k) == FileU32(k) \o FileU32(k + 1) \o FileFloat(k) \o FileFloat(k + 1)
\* faces alternate between triangles (face_type 3) and quads (4)
FileFace(k) ==
    FileU32(3 + (k % 2)) \o FileVertex(k) \o FileVertex(k + 1) \o FileVertex(k + 2)
        \o FileVertex(IF k % 2 = 0 THEN 0 ELSE k + 3)
        \o FileU32(k) \o FileString(<<97, 46, 112>>) \o FileString(<<>>)
FileTag(active, name, data) ==
    <<active>> \o FileString(name) \o FileU32(Len(data)) \o data
FileEndOfFile == FileTag(1, EndOfFileName, <<>>)
FilePayload(n) == [k \in 1..n |-> 1 + (k % 100)]

FileLod(np, nn, nf, tags) ==
    <<80, 51, 68, 77>> \o FileU32(28) \o FileU32(256)
        \o FileU32(np) \o FileU32(nn) \o FileU32(nf) \o FileU32(0)
        \o Flatten([k \in 1..np |-> FilePoint(k)])
        \o Flatten([k \in 1..nn |-> FileNormal(k)])
        \o Flatten([k \in 1..nf |-> FileFace(k)])
        \o <<84, 65, 71, 71>> \o tags \o FileFloat(0)

\* LODs that differ in their geometry
GeometryLods ==
    {FileLod(np, 0, 0, FileEndOfFile) : np \in 0..MaxPoints}
    \cup {FileLod(1, nn, 0, FileEndOfFile) : nn \in 1..MaxNormals}
    \cup {FileLod(0, 1, nf, FileEndOfFile) : nf \in 1..MaxFaces}

\* LODs with a "#Mass#" tag of m floats for np points
MassLods ==
    {FileLod(np, 0, 0, FileTag(1, MassName, FilePayload(4 * m)) \o FileEndOfFile) :
        np \in 0..MaxPoints, m \in 0..MaxMassFloats}

\* LODs with a "#Property#" tag whose payload is short, exact or long
PropertyLods ==
    {FileLod(0, 0, 0, FileTag(1, PropertyName, FilePayload(n)) \o FileEndOfFile) :
        n \in {0, 127, 128, 129}}

\* LODs with other tags, and with each byte for active
OtherLods ==
    {FileLod(0, 0, 0, FileTag(a, <<120>>, <<9>>) \o FileEndOfFile) : a \in 0..MaxActive}
    \cup {FileLod(1, 0, 0,
            FileTag(0, PropertyName, FilePayload(3)) \o FileTag(1, MassName, FilePayload(4))
            \o FileTag(1, PropertyName, FilePayload(128)) \o FileEndOfFile)}

FileHeader(n) == <<77, 76, 79, 68>> \o FileU32(257) \o FileU32(n)

\* whole files: one LOD of each kind, and n LODs of differing geometry
Files ==
    {FileHeader(1) \o l : l \in GeometryLods \cup MassLods \cup PropertyLods \cup OtherLods}
    \cup {FileHeader(n) \o Flatten([k \in 1..n |-> FileLod(k % 2, 0, (k + 1) % 2, FileEndOfFile)]) :
            n \in 0..MaxLods}

Trailing == UNION {[1..n -> {0, 255}] : n \in 1..MaxTrailing}

Inputs ==
    UNION {{SubSeq(f, 1, n) : n \in 0..Len(f)} : f \in Files}
    \cup {f \o t : f \in Files, t \in Trailing}

----------------------------------------------------------------------------
(* main *)

Init ==
    /\ build \in BoolLoads
    /\ bytes \in Inputs
    /\ reader = binary_reader(bytes, Len(bytes))
    /\ out = default_mlod_p3d
    /\ parse_error = nullopt
    /\ lod_index = 0
    /\ writer = new_writer
    /\ str = default_arma_string
    /\ pc = "parse_header"

\* what main holds once a part of mlod_p3d::parse has left the state s
parse_step(s) ==
    /\ reader' = s.reader
    /\ out' = s.out
    /\ parse_error' = s.err
    /\ lod_index' = IF has_value(s.err) THEN lod_index ELSE lod_index + 1
    /\ pc' = IF has_value(s.err) THEN "failed" ELSE "parse_lods"

\* mlod_p3d::parse down to its loop; on an error main prints it and returns 1
ParseHeader ==
    /\ pc = "parse_header"
    /\ parse_step(mlod_p3d_parse_header(reader, out))
    /\ UNCHANGED <<build, bytes, writer, str>>

\* one pass of the loop over out.lods
ParseLod ==
    /\ pc = "parse_lods"
    /\ lod_index <= Len(out.lods)
    /\ parse_step(mlod_p3d_parse_lod(result(parse_error, reader, out), lod_index))
    /\ UNCHANGED <<build, bytes, writer, str>>

\* the loop is over: return { }
ParseReturn ==
    /\ pc = "parse_lods"
    /\ lod_index > Len(out.lods)
    /\ pc' = "parsed"
    /\ UNCHANGED <<build, bytes, reader, out, parse_error, lod_index, writer, str>>

\* main after a parse without error: mlod_p3d::write(writer, out)
Write ==
    /\ pc = "parsed"
    /\ writer' = mlod_p3d_write(writer, out)
    /\ pc' = "written"
    /\ UNCHANGED <<build, bytes, reader, out, parse_error, lod_index, str>>

Next == ParseHeader \/ ParseLod \/ ParseReturn \/ Write

Spec == Init /\ [][Next]_vars

----------------------------------------------------------------------------
(* The string codec on its own: a string is written and parsed back from   *)
(* a buffer in which other bytes follow it, and a buffer of any bytes is   *)
(* parsed as a string.                                                     *)

MaxStringLen == 3     \* a written string holds 0..MaxStringLen chars
MaxBufferLen == 3     \* 0..MaxBufferLen bytes follow it, or are parsed alone

\* strings without a NUL
Strings == UNION {[1..n -> {65, 255}] : n \in 0..MaxStringLen}

Buffers == UNION {[1..n -> {0, 66}] : n \in 0..MaxBufferLen}

InitString ==
    /\ build \in BoolLoads
    /\ bytes \in Buffers
    /\ reader = binary_reader(<<>>, 0)
    /\ out = default_arma_string
    /\ parse_error = nullopt
    /\ lod_index = 0
    /\ writer = new_writer
    /\ str \in {[string |-> s] : s \in Strings}
    /\ pc = "string"

\* what the caller holds once arma_string::parse has left p
string_step(p, to) ==
    /\ reader' = p.reader
    /\ out' = p.out
    /\ parse_error' = p.err
    /\ pc' = to

\* arma_string::write(writer, str)
StringWrite ==
    /\ pc = "string"
    /\ writer' = arma_string_write(writer, str)
    /\ pc' = "string_written"
    /\ UNCHANGED <<build, bytes, reader, out, parse_error, lod_index, str>>

\* arma_string::parse over what was written, followed by bytes
StringParse ==
    /\ pc = "string_written"
    /\ string_step(arma_string_parse(binary_reader(writer.data \o bytes,
                                                   Len(writer.data) + Len(bytes)), out),
                   "string_parsed")
    /\ UNCHANGED <<build, bytes, lod_index, writer, str>>

\* arma_string::parse over bytes alone, out holding an earlier string
StringParseBuffer ==
    /\ pc = "string"
    /\ string_step(arma_string_parse(binary_reader(bytes, Len(bytes)), str),
                   "buffer_parsed")
    /\ UNCHANGED <<build, bytes, lod_index, writer, str>>

NextString == StringWrite \/ StringParse \/ StringParseBuffer

SpecString == InitString /\ [][NextString]_vars

----------------------------------------------------------------------------
(* Properties *)

\* mlod_p3d::parse has returned no error
Decoded == pc \in {"parsed", "written"}

\* the LODs mlod_lod::parse has returned no error for
DecodedLods ==
    IF pc \in {"parse_lods", "parsed", "written", "failed"}
    THEN {k \in DOMAIN out.lods : k < lod_index}
    ELSE {}

TagName(t) == t.tag_name.string

TagsNamed(lod, name) == {j \in DOMAIN lod.tags : TagName(lod.tags[j]) = name}

\* the document parse leaves when run on the buffer b
ParseOf(b) == mlod_p3d_parse(binary_reader(b, Len(b)), default_mlod_p3d)

\* C1: once main has parsed a buffer without error, leaving none of its
\* bytes unread, and written the document, the bytes written are the buffer,
\* byte for byte.
C1_RoundTrip ==
    (pc = "written" /\ reader.current_offset = Len(bytes)) => writer.data = bytes

\* C2: when the buffer ends before the LODs the header declares are complete,
\* parse returns an error and the caller's document holds nothing of the
\* header or the LOD list.
C2_NoPartialDocument ==
    pc = "failed" => has_value(parse_error) /\ out = default_mlod_p3d

\* C3: a decoded LOD holds one property_tag for each of its "#Property#"
\* tags whose payload is exactly 128 bytes long, and none for the others.
C3_PropertyIffLength128 ==
    Decoded =>
        \A k \in DOMAIN out.lods :
            Len(out.lods[k].property_tags) =
                Cardinality({j \in TagsNamed(out.lods[k], PropertyName) :
                                out.lods[k].tags[j].data_length = 128})

\* C4: a decoded LOD with a "#Mass#" tag holds a mass of its floats if the
\* payload is exactly 4 * num_points bytes long, and no mass otherwise.
C4_MassIffLengthMatches ==
    Decoded =>
        \A k \in DOMAIN out.lods :
            \A j \in TagsNamed(out.lods[k], MassName) :
                (\A i \in TagsNamed(out.lods[k], MassName) : i <= j) =>
                    IF out.lods[k].tags[j].data_length = 4 * out.lods[k].num_points
                    THEN out.lods[k].mass.mass =
                            [i \in 1..out.lods[k].num_points |->
                                SubSeq(out.lods[k].tags[j].data, 4 * i - 3, 4 * i)]
                    ELSE out.lods[k].mass = default_mass_tag

\* C5: the tags of every LOD decoded without error are not empty, the last
\* is named "#EndOfFile#" and none before it is; and a LOD whose decode
\* failed before such a tag was stored carries the error, its tag loop never
\* having been left for the resolution.
C5_TagsEndWithEndOfFile ==
    /\ \A k \in DecodedLods :
          /\ out.lods[k].tags /= <<>>
          /\ TagsNamed(out.lods[k], EndOfFileName) = {Len(out.lods[k].tags)}
    /\ (pc = "failed" /\ lod_index \in DOMAIN out.lods
            /\ TagsNamed(out.lods[lod_index], EndOfFileName) = {}) =>
          /\ has_value(parse_error)
          /\ out.lods[lod_index].resolution = default_mlod_lod.resolution

C5_Witness ==
    /\ pc = "written"
    /\ \E k \in DecodedLods : Len(out.lods[k].tags) >= 3

\* projections other than the ones a parse would have derived
OtherPropertyTags ==
    {<<>>, <<[key |-> resize(<<>>, 64, 7), value |-> resize(<<>>, 64, 0)]>>}

OtherMass == {default_mass_tag, [mass |-> << <<1, 2, 3, 4>> >>]}

\* C6: mlod_lod::write emits the same bytes for a decoded LOD whatever its
\* property_tags and mass are; mlod_tag::write emits active, the name and
\* its NUL, data_length and the stored data; and mlod_p3d::write leaves the
\* document as it was.
C6_WriteIgnoresProjections ==
    /\ [](Decoded =>
            \A k \in DOMAIN out.lods :
                /\ \A pt \in OtherPropertyTags, m \in OtherMass :
                      mlod_lod_write(new_writer,
                            [out.lods[k] EXCEPT !.property_tags = pt, !.mass = m])
                        = mlod_lod_write(new_writer, out.lods[k])
                /\ \A j \in DOMAIN out.lods[k].tags :
                      mlod_tag_write(new_writer, out.lods[k].tags[j]).data
                        = <<out.lods[k].tags[j].active>>
                            \o TagName(out.lods[k].tags[j]) \o <<0>>
                            \o uint32_to_bytes(out.lods[k].tags[j].data_length)
                            \o out.lods[k].tags[j].data)
    /\ [][pc' = "written" => out' = out]_vars

C6_Witness ==
    /\ pc = "written"
    /\ \E k \in DOMAIN out.lods :
          /\ out.lods[k].property_tags /= <<>>
          /\ out.lods[k].mass.mass /= <<>>

\* the place of the first NUL of b
FirstNul(b) == CHOOSE i \in DOMAIN b : b[i] = 0 /\ \A j \in 1..(i - 1) : b[j] /= 0

\* C7: arma_string::write emits the chars and one NUL; arma_string::parse of
\* that, whatever follows it, gives the string back and consumes its length
\* plus one; and a parse of any buffer gives the bytes before the first NUL
\* and stops after it, or fails when there is no NUL.
C7_StringCodec ==
    /\ pc \in {"string_written", "string_parsed"} =>
          writer.data = str.string \o <<0>>
    /\ pc = "string_parsed" =>
          /\ parse_error = nullopt
          /\ out = str
          /\ reader.current_offset = Len(str.string) + 1
    /\ pc = "buffer_parsed" =>
          IF \E i \in DOMAIN bytes : bytes[i] = 0
          THEN /\ parse_error = nullopt
               /\ out.string = SubSeq(bytes, 1, FirstNul(bytes) - 1)
               /\ reader.current_offset = FirstNul(bytes)
          ELSE /\ has_value(parse_error)
               /\ reader.current_offset = Len(bytes)

C7_Witness ==
    /\ pc = "string_parsed"
    /\ Len(str.string) = MaxStringLen
    /\ bytes /= <<>>
    /\ out = str

\* C8: the error of a failed parse names the LOD it failed in: a failure in
\* the second LOD never carries the error that the same header with nothing
\* after it, which fails in the first LOD, carries.
C8_ErrorNamesLod ==
    (pc = "failed" /\ lod_index = 2) =>
        parse_error /= ParseOf(SubSeq(bytes, 1, 12)).err

\* C9: in a document decoded without error there are header.lod_count LODs,
\* each with num_points points, num_face_normals normals and num_faces
\* faces, and every face holds 4 vertices whatever its face_type.
C9_Structure ==
    Decoded =>
        /\ Len(out.lods) = out.header.lod_count
        /\ \A k \in DOMAIN out.lods :
              /\ Len(out.lods[k].points) = out.lods[k].num_points
              /\ Len(out.lods[k].normals) = out.lods[k].num_face_normals
              /\ Len(out.lods[k].faces) = out.lods[k].num_faces
              /\ \A f \in DOMAIN out.lods[k].faces :
                    Len(out.lods[k].faces[f].vertices) = 4

C9_Witness ==
    /\ pc = "parsed"
    /\ \E k \in DOMAIN out.lods :
          /\ out.lods[k].normals /= <<>>
          /\ \E f \in DOMAIN out.lods[k].faces :
                /\ out.lods[k].faces[f].face_type = 3
                /\ Len(out.lods[k].faces[f].vertices) = 4

\* C10: the reader never passes the end of the buffer, and once main has
\* written the document the bytes written are the bytes of the buffer the
\* parse consumed, the ones after them left out.
C10_WritesConsumedPrefix ==
    /\ reader.current_offset <= Len(bytes)
    /\ pc = "written" =>
          /\ Len(writer.data) = reader.current_offset
          /\ writer.data = SubSeq(bytes, 1, reader.current_offset)

====
